---- MODULE Spec2Model ----
(***************************************************************************)
(* GenVideo-Studio: the two-track timeline editor (TimelineEditor.tsx),    *)
(* its live preview resolver and transport, and the two export strategies  *)
(* (timelineExport.ts exportTimeline, TimelineEditor.tsx handleExport).    *)
(*                                                                         *)
(* Time.  Every time of the program is a JavaScript number of seconds.     *)
(* The model keeps them exact, as integer multiples of 1/UnitsPerSecond s: *)
(* the unit is chosen so that a tenth of a second (tick, rounding grid),   *)
(* a frame (1/30 s) and a quarter pixel at every zoom level 0.5..3 are     *)
(* whole numbers of units.  Floating point rounding error is not modelled. *)
(***************************************************************************)
EXTENDS Integers, Sequences, FiniteSets, TLC

VARIABLES
    aRoll,                  \* prop aRoll: VideoClip | null
    initialBRolls,          \* prop bRolls: the non-subject clips of App
    bRolls,                 \* state bRolls: the library, a sequence of VideoClip
    timelineClips,          \* state timelineClips: sequence of TimelineClip
    currentTime,            \* state currentTime (units)
    isPlaying,              \* state isPlaying
    zoom,                   \* state zoom, in quarters (4 = 1.0)
    selectedClip,           \* state selectedClip: placement id or NoId
    isDragging,             \* state isDragging (library drag)
    draggedClip,            \* state draggedClip: VideoClip | null
    isDraggingPlayhead,     \* state isDraggingPlayhead
    isDraggingTimelineClip, \* state isDraggingTimelineClip
    draggingClipId,         \* state draggingClipId: placement id or NoId
    dragOffset,             \* state dragOffset, in quarter pixels
    nextId,                 \* the next value crypto.randomUUID() returns
    pendingClick,           \* the click event a release is about to deliver
    video,                  \* the preview's <video> element, videoRef.current
    \* one run of exportTimeline (timelineExport.ts)
    aPc,                    \* where the run is
    aSorted,                \* sortedTimeline: the argument, sorted by start
    aRecorder,              \* mediaRecorder.state, "none" before it is built
    aLoaded,                \* b-roll videos loaded so far
    aTime,                  \* the render loop's currentTime (units)
    aFrame,                 \* what the last renderFrame drew
    aProgress,              \* the last value passed to onProgress, -1 before
    \* the editor's own export, handleExport (TimelineEditor.tsx)
    ffmpegLoaded,           \* state ffmpegLoaded
    isExporting,            \* state isExporting
    exportProgress,         \* state exportProgress
    progressLog,            \* the values the run has passed to setExportProgress
    alerted,                \* the message of the last alert() of handleExport
    bPc,                    \* where the run is
    bSorted,                \* sorted: the timeline at the click, sorted
    fileMap,                \* fileMap: the URLs written, input<i-1>.mp4 for the i-th
    graph,                  \* the filter graph and inputs handed to ffmpeg.exec
    \* the Stitcher component
    initialClips,           \* prop clips (initialClips): sequence of VideoClip
    playlist,               \* state playlist: sequence of VideoClip
    currentPlayingIndex,    \* state currentPlayingIndex: 0-based, NoIndex for null
    isPreviewMode,          \* state isPreviewMode
    stitcherIsPlaying,      \* state isPlaying of the Stitcher
    stitcherVideo,          \* the Stitcher's <video> element, videoRef.current
    \* one call of withRetry (geminiService.ts)
    retries,                \* parameter retries
    retryI,                 \* the loop variable i
    retryPc,                \* where the call is
    retryCalls,             \* the outcomes of the calls of fn made so far
    retryWaits,             \* the delays of the timers set so far, in ms
    retryOutcome            \* what the call returned or threw, NoOutcome before

editorVars == <<aRoll, initialBRolls, bRolls, timelineClips, currentTime, isPlaying, zoom,
                selectedClip, isDragging, draggedClip, isDraggingPlayhead,
                isDraggingTimelineClip, draggingClipId, dragOffset, nextId,
                pendingClick, video>>

exportAVars == <<aPc, aSorted, aRecorder, aLoaded, aTime, aFrame, aProgress>>

exportBVars == <<ffmpegLoaded, isExporting, exportProgress, progressLog, alerted,
                 bPc, bSorted, fileMap, graph>>

exportVars == <<exportAVars, exportBVars>>

stitcherVars == <<initialClips, playlist, currentPlayingIndex, isPreviewMode,
                  stitcherIsPlaying, stitcherVideo>>

retryVars == <<retries, retryI, retryPc, retryCalls, retryWaits, retryOutcome>>

vars == <<editorVars, exportVars, stitcherVars, retryVars>>

-----------------------------------------------------------------------------
(* Units *)

ZoomLcm == 4 * 8 * 9 * 5 * 7 * 11

BASE_PIXELS_PER_SECOND == 50

TRACK_LABEL_WIDTH == 80

UnitsPerSecond == (BASE_PIXELS_PER_SECOND * ZoomLcm) \div 4

Sec(n) == n * UnitsPerSecond

TenthsPerSecond == 10

Tenth == UnitsPerSecond \div TenthsPerSecond

\* one quarter pixel at zoom zq/4, in units: 1 / (4 * PIXEL_PER_SECOND) seconds
UnitsPerQuarterPixel(zq) == ZoomLcm \div (4 * zq)

\* a time on the 0.1 s grid as quarter pixels: time * PIXEL_PER_SECOND
TimeToQuarterPixels(t, zq) == (t \div Tenth) * 5 * zq

\* Math.round(t * 10) / 10 : the nearest tenth, halves rounded up
RoundTenth(t) == ((2 * t + Tenth) \div (2 * Tenth)) * Tenth

Max0(t) == IF t < 0 THEN 0 ELSE t

Min(a, b) == IF a < b THEN a ELSE b

SetMax(S) == CHOOSE m \in S : \A x \in S : x <= m

-----------------------------------------------------------------------------
(* Bounds of the model *)

MaxIds == 2

MaxTimeSeconds == 52

MaxTime == Sec(MaxTimeSeconds)

-----------------------------------------------------------------------------
(* Data *)

Undefined == -1

NoId == 0

\* no click is to be delivered
NoClick == [px |-> -1, target |-> "none"]

NoAsset == [id |-> "none", url |-> "none", duration |-> Undefined, type |-> "none"]

NoClip == [id |-> NoId, videoClip |-> NoAsset, startTime |-> 0, duration |-> 0,
           track |-> "none"]

\* the values the aRoll prop takes: a subject clip of known duration, and one
\* whose duration is 0
ARollProps ==
    { [id |-> "s1", url |-> "us1", duration |-> Sec(10), type |-> "subject"],
      [id |-> "s2", url |-> "us2", duration |-> 0, type |-> "subject"] }

\* the initialBRolls prop: an upload of known duration and a stock clip
\* without duration
InitialBRolls ==
    << [id |-> "b1", url |-> "ub1", duration |-> Sec(2), type |-> "upload"],
       [id |-> "b2", url |-> "ub2", duration |-> Undefined, type |-> "stock"] >>

\* pointer positions: e.clientX - rect.left + scrollLeft, in pixels
PointerXs == {60, 180, 430, 431}

Tracks == {"a-roll", "b-roll"}

Range(s) == {s[i] : i \in DOMAIN s}

Ends(clips) == {c.startTime + c.duration : c \in Range(clips)}

\* x || fallback for a duration: undefined, 0 (and NaN) are falsy
OrElse(d, fallback) == IF d = Undefined \/ d = 0 THEN fallback ELSE d

-----------------------------------------------------------------------------
(* Derived values *)

DEFAULT_VIEW_SECONDS == 45

\* const totalDuration = Math.max(...ends, 45)
totalDuration == SetMax(Ends(timelineClips) \cup {Sec(DEFAULT_VIEW_SECONDS)})

\* the tick's maxTime = Math.max(...ends, 0)
TickMaxTime(clips) == SetMax(Ends(clips) \cup {0})

PLAYHEAD_FLOOR_SECONDS == 45

\* the playhead drag's maxTime = Math.max(...ends, 45)
PlayheadMaxTime(clips) == SetMax(Ends(clips) \cup {Sec(PLAYHEAD_FLOOR_SECONDS)})

\* the pointer's time: Math.max(0, x / PIXEL_PER_SECOND),
\* x = clientX - rect.left + scrollLeft - TRACK_LABEL_WIDTH
\* variant: x / PIXEL_PER_SECOND without Math.max(0, ...)
PointerTimeUnclamped(px, zq) == 4 * (px - TRACK_LABEL_WIDTH) * UnitsPerQuarterPixel(zq)

PointerTime(px, zq) == Max0(4 * (px - TRACK_LABEL_WIDTH) * UnitsPerQuarterPixel(zq))

-----------------------------------------------------------------------------
(* Preview resolver *)

\* variant: the interval closed at its end
IsActiveAtClosed(clip, t) == t >= clip.startTime /\ t <= clip.startTime + clip.duration

IsActiveAt(clip, t) == t >= clip.startTime /\ t < clip.startTime + clip.duration

ActiveClips(clips, t) == SelectSeq(clips, LAMBDA c : IsActiveAt(c, t))

IsBRoll(c) == c.track = "b-roll"

\* variant: activeClips[0], whatever its track
ActiveClipFirstActive(clips, t) ==
    LET active == ActiveClips(clips, t)
    IN  IF Len(active) > 0 THEN active[1] ELSE NoClip

\* variant: the last match instead of the first (findLast, at(-1))
ActiveClipLast(clips, t) ==
    LET active == ActiveClips(clips, t)
        b == SelectSeq(active, IsBRoll)
    IN  IF Len(b) > 0 THEN b[Len(b)]
        ELSE IF Len(active) > 0 THEN active[Len(active)]
        ELSE NoClip

\* activeClips.find((c) => c.track === "b-roll") || activeClips[0]
ActiveClip(clips, t) ==
    LET active == ActiveClips(clips, t)
        b == SelectSeq(active, IsBRoll)
    IN  IF Len(b) > 0 THEN b[1]
        ELSE IF Len(active) > 0 THEN active[1]
        ELSE NoClip

-----------------------------------------------------------------------------
(* Editor *)

DEFAULT_AROLL_SECONDS == 45

\* the placement the effect on [aRoll] builds
ARollClip(a, id) ==
    [id |-> id, videoClip |-> a, startTime |-> 0,
     duration |-> OrElse(a.duration, Sec(DEFAULT_AROLL_SECONDS)), track |-> "a-roll"]

NoFrame == [clip |-> NoId, url |-> "none", offset |-> 0]

FrameOf(c, offset) == [clip |-> c.id, url |-> c.videoClip.url, offset |-> offset]

\* what the preview effect shows at time t: the active clip's URL as the video
\* element's src, at video.currentTime = t - startTime; nothing is set while no
\* clip is active
PreviewFrame(clips, t) ==
    LET c == ActiveClip(clips, t)
    IN  IF c = NoClip THEN NoFrame ELSE FrameOf(c, t - c.startTime)

NoGraph == [kind |-> "none", base |-> NoClip, overlays |-> <<>>, inputs |-> <<>>,
            hasOut |-> FALSE, t |-> 0]

\* the preview element before any source is assigned: no src, nothing loaded,
\* paused at 0; start is the element's default playback start position, where
\* an assignment to currentTime is kept while no metadata is available
NoVideo == [src |-> "", ready |-> FALSE, paused |-> TRUE, time |-> 0, start |-> 0]

\* variant: src assigned on every run, without the test on the current src
SynchronizeAssigning(v, clips, t, playing) ==
    LET activeClip == ActiveClip(clips, t)
        loaded == [v EXCEPT !.src = activeClip.videoClip.url, !.ready = FALSE,
                            !.paused = TRUE, !.time = 0, !.start = 0]
        clipTime == t - activeClip.startTime
        sought == [loaded EXCEPT !.start = clipTime]
    IN  IF activeClip = NoClip THEN v
        ELSE IF playing THEN [sought EXCEPT !.paused = FALSE] ELSE sought

\* One run of the preview effect on the element v.  Nothing is done while no
\* clip is active.  Otherwise src is assigned when it differs (the element
\* starts loading anew: paused, at 0, no metadata), then currentTime is
\* assigned, then play() is called when playing; pause() is never called.  The
\* URLs are absolute, so reading src gives back the string assigned.
Synchronize(v, clips, t, playing) ==
    LET activeClip == ActiveClip(clips, t)
        swap == v.src # activeClip.videoClip.url
        loaded == IF swap
                  THEN [v EXCEPT !.src = activeClip.videoClip.url, !.ready = FALSE,
                                 !.paused = TRUE, !.time = 0, !.start = 0]
                  ELSE v
        clipTime == t - activeClip.startTime
        sought == IF loaded.ready
                  THEN [loaded EXCEPT !.time = clipTime]
                  ELSE [loaded EXCEPT !.start = clipTime]
    IN  IF activeClip = NoClip THEN v
        ELSE IF playing THEN [sought EXCEPT !.paused = FALSE] ELSE sought

\* the effect on [currentTime, timelineClips, isPlaying], run after the render
\* that follows a handler
previewEffect ==
    video' = IF <<currentTime', timelineClips', isPlaying'>>
                    = <<currentTime, timelineClips, isPlaying>>
             THEN video
             ELSE Synchronize(video, timelineClips', currentTime', isPlaying')

\* null as currentPlayingIndex
NoIndex == -1

\* the Stitcher's video element while it is not rendered, and as it is mounted
NoStitcherVideo == [src |-> "", paused |-> TRUE]

\* the Stitcher as it mounts before any clip was generated
InitStitcher ==
    /\ initialClips = <<>>
    /\ playlist = <<>>
    /\ currentPlayingIndex = NoIndex
    /\ isPreviewMode = FALSE
    /\ stitcherIsPlaying = FALSE
    /\ stitcherVideo = NoStitcherVideo

NoOutcome == [kind |-> "none", value |-> "none"]

\* withRetry has not been called
InitRetry ==
    /\ retries = 0
    /\ retryI = 0
    /\ retryPc = "idle"
    /\ retryCalls = <<>>
    /\ retryWaits = <<>>
    /\ retryOutcome = NoOutcome

\* no export has been started; ffmpeg.load() has not resolved yet
InitExport ==
    /\ aPc = "idle"
    /\ aSorted = <<>>
    /\ aRecorder = "none"
    /\ aLoaded = 0
    /\ aTime = 0
    /\ aFrame = NoFrame
    /\ aProgress = -1
    /\ ffmpegLoaded = FALSE
    /\ isExporting = FALSE
    /\ exportProgress = ""
    /\ progressLog = <<>>
    /\ alerted = ""
    /\ bPc = "idle"
    /\ bSorted = <<>>
    /\ fileMap = <<>>
    /\ graph = NoGraph

\* the useState initial values other than the timeline's
InitControls ==
    /\ initialBRolls = InitialBRolls
    /\ bRolls = InitialBRolls
    /\ currentTime = 0
    /\ isPlaying = FALSE
    /\ zoom = 4
    /\ selectedClip = NoId
    /\ isDragging = FALSE
    /\ draggedClip = NoAsset
    /\ isDraggingPlayhead = FALSE
    /\ isDraggingTimelineClip = FALSE
    /\ draggingClipId = NoId
    /\ dragOffset = 0
    /\ pendingClick = NoClick

\* The editor once mounted: the useState initial values, then the mount run of
\* the effect on [aRoll], which puts the a-roll placement on the empty timeline,
\* and the run of the preview effect on it.
InitEditor(a) ==
    /\ aRoll = a
    /\ timelineClips = IF a # NoAsset THEN <<ARollClip(a, 1)>> ELSE <<>>
    /\ nextId = IF a # NoAsset THEN 2 ELSE 1
    /\ InitControls
    /\ video = Synchronize(NoVideo, timelineClips, currentTime, isPlaying)

Init ==
    /\ \E a \in ARollProps \cup {NoAsset} : InitEditor(a)
    /\ InitExport
    /\ InitStitcher
    /\ InitRetry

\* one setInterval callback of the playback effect
Tick ==
    /\ isPlaying
    /\ IF currentTime >= TickMaxTime(timelineClips)
       THEN /\ isPlaying' = FALSE
            /\ currentTime' = 0
       ELSE /\ currentTime' = currentTime + Tenth
            /\ UNCHANGED isPlaying
    /\ UNCHANGED <<aRoll, initialBRolls, bRolls, timelineClips, zoom, selectedClip, isDragging,
                   draggedClip, isDraggingPlayhead, isDraggingTimelineClip,
                   draggingClipId, dragOffset, nextId, pendingClick, exportVars>>

togglePlayPause ==
    /\ isPlaying' = ~isPlaying
    /\ UNCHANGED <<aRoll, initialBRolls, bRolls, timelineClips, currentTime, zoom, selectedClip,
                   isDragging, draggedClip, isDraggingPlayhead,
                   isDraggingTimelineClip, draggingClipId, dragOffset, nextId, pendingClick, exportVars>>

SKIP_SECONDS == 5

\* the skip-back button: setCurrentTime(Math.max(0, currentTime - 5))
skipBack ==
    /\ currentTime' = Max0(currentTime - Sec(SKIP_SECONDS))
    /\ UNCHANGED <<aRoll, initialBRolls, bRolls, timelineClips, isPlaying, zoom, selectedClip,
                   isDragging, draggedClip, isDraggingPlayhead,
                   isDraggingTimelineClip, draggingClipId, dragOffset, nextId, pendingClick, exportVars>>

\* the skip-forward button: setCurrentTime(currentTime + 5)
skipForward ==
    /\ currentTime + Sec(SKIP_SECONDS) <= MaxTime
    /\ currentTime' = currentTime + Sec(SKIP_SECONDS)
    /\ UNCHANGED <<aRoll, initialBRolls, bRolls, timelineClips, isPlaying, zoom, selectedClip,
                   isDragging, draggedClip, isDraggingPlayhead,
                   isDraggingTimelineClip, draggingClipId, dragOffset, nextId, pendingClick, exportVars>>

handleDragStart(clip) ==
    /\ draggedClip' = clip
    /\ isDragging' = TRUE
    /\ UNCHANGED <<aRoll, initialBRolls, bRolls, timelineClips, currentTime, isPlaying, zoom,
                   selectedClip, isDraggingPlayhead, isDraggingTimelineClip,
                   draggingClipId, dragOffset, nextId, pendingClick, exportVars>>

\* onDragEnd of a library item
onDragEnd ==
    /\ isDragging' = FALSE
    /\ draggedClip' = NoAsset
    /\ UNCHANGED <<aRoll, initialBRolls, bRolls, timelineClips, currentTime, isPlaying, zoom,
                   selectedClip, isDraggingPlayhead, isDraggingTimelineClip,
                   draggingClipId, dragOffset, nextId, pendingClick, exportVars>>

DEFAULT_DROP_SECONDS == 3

\* variant: duration: draggedClip.duration, without the || 3
DroppedClipNoDefault(clip, id, px, track, zq) ==
    [id |-> id, videoClip |-> clip,
     startTime |-> RoundTenth(PointerTime(px, zq)),
     duration |-> clip.duration,
     track |-> track]

\* variant: track: "b-roll", whatever track received the drop
DroppedClipOnBRoll(clip, id, px, track, zq) ==
    [id |-> id, videoClip |-> clip,
     startTime |-> RoundTenth(PointerTime(px, zq)),
     duration |-> OrElse(clip.duration, Sec(DEFAULT_DROP_SECONDS)),
     track |-> "b-roll"]

DroppedClip(clip, id, px, track, zq) ==
    [id |-> id, videoClip |-> clip,
     startTime |-> RoundTenth(PointerTime(px, zq)),
     duration |-> OrElse(clip.duration, Sec(DEFAULT_DROP_SECONDS)),
     track |-> track]

handleDrop(px, track) ==
    /\ IF draggedClip = NoAsset
       THEN UNCHANGED <<timelineClips, nextId>>
       ELSE /\ nextId <= MaxIds
            /\ timelineClips' =
                   Append(timelineClips,
                          DroppedClip(draggedClip, nextId, px, track, zoom))
            /\ nextId' = nextId + 1
    /\ draggedClip' = NoAsset
    /\ isDragging' = FALSE
    /\ UNCHANGED <<aRoll, initialBRolls, bRolls, currentTime, isPlaying, zoom, selectedClip,
                   isDraggingPlayhead, isDraggingTimelineClip, draggingClipId,
                   dragOffset, pendingClick, exportVars>>

\* the pointer is over the placement's box: [left, left + width]
PointerOver(clip, px, zq) ==
    LET t == 4 * (px - TRACK_LABEL_WIDTH) * UnitsPerQuarterPixel(zq)
    IN  t >= clip.startTime /\ t <= clip.startTime + clip.duration

handleClipMouseDown(clip, px) ==
    /\ PointerOver(clip, px, zoom)
    /\ dragOffset' = 4 * (px - TRACK_LABEL_WIDTH)
                       - TimeToQuarterPixels(clip.startTime, zoom)
    /\ isDraggingTimelineClip' = TRUE
    /\ draggingClipId' = clip.id
    /\ selectedClip' = clip.id
    /\ isPlaying' = FALSE
    /\ UNCHANGED <<aRoll, initialBRolls, bRolls, timelineClips, currentTime, zoom, isDragging,
                   draggedClip, isDraggingPlayhead, nextId, pendingClick, exportVars>>

handlePlayheadMouseDown ==
    /\ isDraggingPlayhead' = TRUE
    /\ isPlaying' = FALSE
    /\ UNCHANGED <<aRoll, initialBRolls, bRolls, timelineClips, currentTime, zoom, selectedClip,
                   isDragging, draggedClip, isDraggingTimelineClip,
                   draggingClipId, dragOffset, nextId, pendingClick, exportVars>>

\* the listeners of the placement drag effect are bound
ClipDragBound == isDraggingTimelineClip /\ draggingClipId # NoId

\* the listeners of the playhead drag effect are bound
PlayheadDragBound == isDraggingPlayhead

\* the placement drag's new start:
\* Math.round(Math.max(0, x / PIXEL_PER_SECOND) * 10) / 10,
\* x = clientX - rect.left + scrollLeft - TRACK_LABEL_WIDTH - dragOffset
DragStartTime(px, offset, zq) ==
    RoundTenth(Max0((4 * (px - TRACK_LABEL_WIDTH) - offset) * UnitsPerQuarterPixel(zq)))

\* variant: the map without the clip.id === draggingClipId test
MoveClipAll(clips, id, newStart) ==
    [i \in DOMAIN clips |-> [clips[i] EXCEPT !.startTime = newStart]]

\* variant: the map adding the new start to the placement's start
MoveClipBy(clips, id, newStart) ==
    [i \in DOMAIN clips |->
        IF clips[i].id = id
        THEN [clips[i] EXCEPT !.startTime = @ + newStart]
        ELSE clips[i]]

MoveClip(clips, id, newStart) ==
    [i \in DOMAIN clips |->
        IF clips[i].id = id
        THEN [clips[i] EXCEPT !.startTime = newStart]
        ELSE clips[i]]

\* a mousemove on the document runs the handleMouseMove of every bound effect
handleMouseMove(px) ==
    /\ ClipDragBound \/ PlayheadDragBound
    /\ timelineClips' =
          IF ClipDragBound
          THEN MoveClip(timelineClips, draggingClipId,
                        DragStartTime(px, dragOffset, zoom))
          ELSE timelineClips
    /\ currentTime' =
          IF PlayheadDragBound
          THEN Min(PointerTime(px, zoom), PlayheadMaxTime(timelineClips))
          ELSE currentTime
    /\ UNCHANGED <<aRoll, initialBRolls, bRolls, isPlaying, zoom, selectedClip, isDragging,
                   draggedClip, isDraggingPlayhead, isDraggingTimelineClip,
                   draggingClipId, dragOffset, nextId, pendingClick, exportVars>>

\* the clicks the browser may dispatch after a mouseup, on the common ancestor
\* of the press and the release: none when the release is outside the tracks
\* container, otherwise one at the release's position, its target under the
\* element that was pressed
ReleaseClicks ==
    {NoClick} \cup
    { [px |-> x, target |-> g] :
        x \in PointerXs,
        g \in {t \in {"placement", "playhead"} :
                  \/ t = "placement" /\ ClipDragBound
                  \/ t = "playhead" /\ PlayheadDragBound} }

\* a mouseup on the document runs the handleMouseUp of every bound effect
handleMouseUp(click) ==
    /\ ClipDragBound \/ PlayheadDragBound
    /\ IF ClipDragBound
       THEN /\ isDraggingTimelineClip' = FALSE
            /\ draggingClipId' = NoId
            /\ dragOffset' = 0
       ELSE UNCHANGED <<isDraggingTimelineClip, draggingClipId, dragOffset>>
    /\ isDraggingPlayhead' = FALSE
    /\ pendingClick' = click
    /\ UNCHANGED <<aRoll, initialBRolls, bRolls, timelineClips, currentTime,
                   isPlaying, zoom, selectedClip, isDragging, draggedClip, nextId,
                   exportVars>>

\* onClick of the tracks container
handleTimelineClick(px) ==
    /\ IF isDraggingPlayhead \/ isDraggingTimelineClip
       THEN UNCHANGED <<currentTime, isPlaying>>
       ELSE /\ currentTime' = PointerTime(px, zoom)
            /\ isPlaying' = FALSE
    /\ pendingClick' = NoClick
    /\ UNCHANGED <<aRoll, initialBRolls, bRolls, timelineClips, zoom, selectedClip,
                   isDragging, draggedClip, isDraggingPlayhead,
                   isDraggingTimelineClip, draggingClipId, dragOffset, nextId,
                   exportVars>>

\* variant: the filter dropping every placement of the selected one's asset
handleDeleteClipOfAsset ==
    /\ selectedClip # NoId
    /\ timelineClips' =
          SelectSeq(timelineClips,
                    LAMBDA c : \A d \in Range(timelineClips) :
                                  d.id = selectedClip => c.videoClip.id # d.videoClip.id)
    /\ selectedClip' = NoId
    /\ UNCHANGED <<aRoll, initialBRolls, bRolls, currentTime, isPlaying, zoom, isDragging,
                   draggedClip, isDraggingPlayhead, isDraggingTimelineClip,
                   draggingClipId, dragOffset, nextId, pendingClick, exportVars>>

\* the Delete Clip button, rendered while selectedClip is set:
\* handleDeleteClip(selectedClip)
handleDeleteClip ==
    /\ selectedClip # NoId
    /\ timelineClips' = SelectSeq(timelineClips, LAMBDA c : c.id # selectedClip)
    /\ selectedClip' = NoId
    /\ UNCHANGED <<aRoll, initialBRolls, bRolls, currentTime, isPlaying, zoom, isDragging,
                   draggedClip, isDraggingPlayhead, isDraggingTimelineClip,
                   draggingClipId, dragOffset, nextId, pendingClick, exportVars>>

\* the remove button of an uploaded library item
handleRemoveBRoll(clip) ==
    /\ clip.type = "upload"
    /\ bRolls' = SelectSeq(bRolls, LAMBDA c : c.id # clip.id)
    /\ timelineClips' = SelectSeq(timelineClips, LAMBDA c : c.videoClip.id # clip.id)
    /\ UNCHANGED <<aRoll, initialBRolls, currentTime, isPlaying, zoom, selectedClip, isDragging,
                   draggedClip, isDraggingPlayhead, isDraggingTimelineClip,
                   draggingClipId, dragOffset, nextId, pendingClick, exportVars>>

\* the file the upload input is given: a video whose metadata loads
UploadedFile == [id |-> "u1", url |-> "uu1", duration |-> Sec(4), type |-> "upload"]

\* handleFileUpload, at the setBRolls after the durations are read.  One file
\* is uploaded at a time, and again only once nothing refers to the last one
\* (crypto.randomUUID() gives each upload a fresh id).
handleFileUpload ==
    /\ UploadedFile \notin Range(bRolls)
    /\ draggedClip # UploadedFile
    /\ \A c \in Range(timelineClips) : c.videoClip # UploadedFile
    /\ bRolls' = Append(bRolls, UploadedFile)
    /\ UNCHANGED <<aRoll, initialBRolls, timelineClips, currentTime, isPlaying,
                   zoom, selectedClip, isDragging, draggedClip,
                   isDraggingPlayhead, isDraggingTimelineClip, draggingClipId,
                   dragOffset, nextId, pendingClick, exportVars>>

\* the clips a generator started on the home page delivers after the timeline
\* page was opened: a stock clip (no duration) and a subject clip
GeneratedClips ==
    { [id |-> "g1", url |-> "ug1", duration |-> Undefined, type |-> "stock"],
      [id |-> "b2", url |-> "ub2b", duration |-> Undefined, type |-> "stock"],
      [id |-> "s3", url |-> "us3", duration |-> Sec(5), type |-> "subject"] }

\* App.handleVideoGenerated called by a generator whose request was pending
\* when the timeline page was opened: App renders again, aRoll is the first
\* subject clip and bRolls a new array of the other clips, so the effect on
\* [initialBRolls] replaces the library, and the effect on [aRoll] runs when
\* aRoll changed.
handleVideoGenerated(clip) ==
    /\ clip \notin Range(initialBRolls)
    /\ aRoll' = IF clip.type = "subject" /\ aRoll = NoAsset THEN clip ELSE aRoll
    /\ initialBRolls' = IF clip.type = "subject" THEN initialBRolls
                        ELSE Append(initialBRolls, clip)
    /\ bRolls' = initialBRolls'
    /\ IF aRoll' # aRoll /\ Len(timelineClips) = 0
       THEN /\ nextId <= MaxIds
            /\ timelineClips' = <<ARollClip(aRoll', nextId)>>
            /\ nextId' = nextId + 1
       ELSE UNCHANGED <<timelineClips, nextId>>
    /\ UNCHANGED <<currentTime, isPlaying, zoom, selectedClip, isDragging,
                   draggedClip, isDraggingPlayhead, isDraggingTimelineClip,
                   draggingClipId, dragOffset, pendingClick, exportVars>>

\* the click a release delivers is dispatched before any other event
NoClickPending == pendingClick = NoClick

\* Editing: every handler of the timeline, the library and the pointer
\* gestures, with the play button, while the props stay as they were at the
\* mount; the interval callback is left to TransportSpec, the uploads and the
\* props' changes to LibrarySpec.  No handler reads the preview element, so it
\* is left as it is here and followed in PreviewSpec and LibrarySpec.
Next ==
    \/ NoClickPending /\ togglePlayPause /\ UNCHANGED <<video, stitcherVars, retryVars>>
    \/ NoClickPending /\ (\E clip \in Range(bRolls) : handleDragStart(clip)) /\ UNCHANGED <<video, stitcherVars, retryVars>>
    \/ NoClickPending /\ onDragEnd /\ UNCHANGED <<video, stitcherVars, retryVars>>
    \/ NoClickPending /\ (\E px \in PointerXs, track \in Tracks : handleDrop(px, track)) /\ UNCHANGED <<video, stitcherVars, retryVars>>
    \/ NoClickPending /\ (\E clip \in Range(timelineClips), px \in PointerXs : handleClipMouseDown(clip, px)) /\ UNCHANGED <<video, stitcherVars, retryVars>>
    \/ NoClickPending /\ handlePlayheadMouseDown /\ UNCHANGED <<video, stitcherVars, retryVars>>
    \/ NoClickPending /\ (\E px \in PointerXs : handleMouseMove(px)) /\ UNCHANGED <<video, stitcherVars, retryVars>>
    \/ NoClickPending /\ (\E click \in ReleaseClicks : handleMouseUp(click)) /\ UNCHANGED <<video, stitcherVars, retryVars>>
    \/ NoClickPending /\ (\E px \in PointerXs : handleTimelineClick(px)) /\ UNCHANGED <<video, stitcherVars, retryVars>>
    \/ ~NoClickPending /\ handleTimelineClick(pendingClick.px) /\ UNCHANGED <<video, stitcherVars, retryVars>>
    \/ NoClickPending /\ handleDeleteClip /\ UNCHANGED <<video, stitcherVars, retryVars>>
    \/ NoClickPending /\ (\E clip \in Range(bRolls) : handleRemoveBRoll(clip)) /\ UNCHANGED <<video, stitcherVars, retryVars>>

Spec == Init /\ [][Next]_vars

\* Library: the assets coming and going (uploads, removals, clips delivered by
\* the generators) with the drops that place them, each followed by the
\* preview effect.
LibraryNext ==
    \/ (\E clip \in Range(bRolls) : handleDragStart(clip)) /\ previewEffect /\ UNCHANGED <<stitcherVars, retryVars>>
    \/ onDragEnd /\ previewEffect /\ UNCHANGED <<stitcherVars, retryVars>>
    \/ (\E px \in PointerXs, track \in Tracks : handleDrop(px, track)) /\ previewEffect /\ UNCHANGED <<stitcherVars, retryVars>>
    \/ (\E clip \in Range(bRolls) : handleRemoveBRoll(clip)) /\ previewEffect /\ UNCHANGED <<stitcherVars, retryVars>>
    \/ handleFileUpload /\ previewEffect /\ UNCHANGED <<stitcherVars, retryVars>>
    \/ (\E clip \in GeneratedClips : handleVideoGenerated(clip)) /\ previewEffect /\ UNCHANGED <<stitcherVars, retryVars>>

LibrarySpec == Init /\ [][LibraryNext]_vars

-----------------------------------------------------------------------------
(* Playback *)

\* pointer positions of the drops that build the timelines below: 1 s and 3 s
DropXs == {130, 230}

\* a placement dropped from the library with id `id`
Drops(id) ==
    { DroppedClip(InitialBRolls[i], id, px, track, 4) :
        i \in DOMAIN InitialBRolls, px \in DropXs, track \in Tracks }

\* the first placement: the automatic a-roll, or a drop on the empty timeline
FirstClips == {ARollClip(a, 1) : a \in ARollProps} \cup Drops(1)

\* the timelines the editor reaches by mounting and dropping: every one of at
\* most two placements, and the 10 s a-roll with two b-roll drops
Timelines ==
    {<<>>} \cup {<<c>> : c \in FirstClips}
           \cup {<<c, d>> : c \in FirstClips, d \in Drops(2)}
           \cup {<<ARollClip(a, 1), c, d>> :
                    a \in {x \in ARollProps : x.duration > 0},
                    c \in {x \in Drops(2) : IsBRoll(x)},
                    d \in {x \in Drops(3) : IsBRoll(x)}}

\* the editor after these drops, nothing else touched
InitTimeline(clips) ==
    /\ timelineClips = clips
    /\ aRoll = IF Len(clips) > 0 /\ clips[1].videoClip \in ARollProps
               THEN clips[1].videoClip ELSE NoAsset
    /\ nextId = Len(clips) + 1
    /\ InitControls
    /\ video = Synchronize(NoVideo, timelineClips, currentTime, isPlaying)

TransportInit ==
    /\ \E clips \in Timelines : InitTimeline(clips)
    /\ InitExport
    /\ InitStitcher
    /\ InitRetry

\* Playback: the transport over each of these timelines, with the seeks and
\* the playhead drag; the preview element is followed in PreviewSpec.
TransportNext ==
    \/ NoClickPending /\ Tick /\ UNCHANGED <<video, stitcherVars, retryVars>>
    \/ NoClickPending /\ togglePlayPause /\ UNCHANGED <<video, stitcherVars, retryVars>>
    \/ NoClickPending /\ skipBack /\ UNCHANGED <<video, stitcherVars, retryVars>>
    \/ NoClickPending /\ skipForward /\ UNCHANGED <<video, stitcherVars, retryVars>>
    \/ NoClickPending /\ handlePlayheadMouseDown /\ UNCHANGED <<video, stitcherVars, retryVars>>
    \/ NoClickPending /\ (\E px \in PointerXs : handleMouseMove(px)) /\ UNCHANGED <<video, stitcherVars, retryVars>>
    \/ NoClickPending /\ (\E click \in ReleaseClicks : handleMouseUp(click)) /\ UNCHANGED <<video, stitcherVars, retryVars>>
    \/ NoClickPending /\ (\E px \in PointerXs : handleTimelineClick(px)) /\ UNCHANGED <<video, stitcherVars, retryVars>>
    \/ ~NoClickPending /\ handleTimelineClick(pendingClick.px) /\ UNCHANGED <<video, stitcherVars, retryVars>>

TransportSpec == TransportInit /\ [][TransportNext]_vars

MIN_ZOOM == 2

MAX_ZOOM == 12

\* the zooms the buttons reach: 0.5 to 3 in steps of 0.25, in quarters
Zooms == MIN_ZOOM..MAX_ZOOM

\* a pointer position beyond 45 s at every zoom
FarPointerX == 7400

\* the editor mounted without a-roll, the zoom buttons pressed some times, one
\* placement left to drop
PointerInit ==
    /\ aRoll = NoAsset
    /\ timelineClips = <<>>
    /\ nextId = MaxIds
    /\ zoom \in Zooms
    /\ initialBRolls = InitialBRolls
    /\ bRolls = InitialBRolls
    /\ currentTime = 0
    /\ isPlaying = FALSE
    /\ selectedClip = NoId
    /\ isDragging = FALSE
    /\ draggedClip = NoAsset
    /\ isDraggingPlayhead = FALSE
    /\ isDraggingTimelineClip = FALSE
    /\ draggingClipId = NoId
    /\ dragOffset = 0
    /\ pendingClick = NoClick
    /\ video = NoVideo
    /\ InitExport
    /\ InitStitcher
    /\ InitRetry

\* Pointer conversions: the drop, the two mouse gestures and the click, at
\* each zoom; the far position for the playhead alone.
PointerNext ==
    \/ NoClickPending /\ (\E clip \in Range(bRolls) : handleDragStart(clip)) /\ UNCHANGED <<video, stitcherVars, retryVars>>
    \/ NoClickPending /\ (\E px \in PointerXs, track \in Tracks : handleDrop(px, track)) /\ UNCHANGED <<video, stitcherVars, retryVars>>
    \/ NoClickPending /\ (\E clip \in Range(timelineClips), px \in PointerXs : handleClipMouseDown(clip, px)) /\ UNCHANGED <<video, stitcherVars, retryVars>>
    \/ NoClickPending /\ handlePlayheadMouseDown /\ UNCHANGED <<video, stitcherVars, retryVars>>
    \/ NoClickPending /\ (\E px \in PointerXs : handleMouseMove(px)) /\ UNCHANGED <<video, stitcherVars, retryVars>>
    \/ NoClickPending /\ ~ClipDragBound /\ handleMouseMove(FarPointerX) /\ UNCHANGED <<video, stitcherVars, retryVars>>
    \/ NoClickPending /\ handleMouseUp(NoClick) /\ UNCHANGED <<video, stitcherVars, retryVars>>
    \/ NoClickPending /\ (\E px \in PointerXs \cup {FarPointerX} : handleTimelineClick(px)) /\ UNCHANGED <<video, stitcherVars, retryVars>>

PointerSpec == PointerInit /\ [][PointerNext]_vars

\* the element's loadedmetadata: the metadata of the assigned source is
\* available, and the element seeks to its default playback start position
videoLoadedMetadata ==
    /\ video.src # ""
    /\ ~video.ready
    /\ video' = [video EXCEPT !.ready = TRUE, !.time = video.start, !.start = 0]
    /\ UNCHANGED <<aRoll, initialBRolls, bRolls, timelineClips, currentTime, isPlaying,
                   zoom, selectedClip, isDragging, draggedClip, isDraggingPlayhead,
                   isDraggingTimelineClip, draggingClipId, dragOffset, nextId,
                   pendingClick, exportVars>>

\* the timelines of the preview: none, one placement of at most 10 s, the
\* 10 s a-roll with one drop
PreviewTimelines ==
    {<<>>} \cup {<<c>> : c \in {x \in FirstClips : x.duration <= Sec(10)}}
           \cup {<<ARollClip(a, 1), d>> :
                    a \in {x \in ARollProps : x.duration > 0}, d \in Drops(2)}

PreviewInit ==
    /\ \E clips \in PreviewTimelines : InitTimeline(clips)
    /\ InitExport
    /\ InitStitcher
    /\ InitRetry

\* Preview: playback, the seeks by click and by playhead drag, with the preview
\* effect run after every handler,
\* and the element's load signal.
PreviewNext ==
    \/ NoClickPending /\ Tick /\ previewEffect /\ UNCHANGED <<stitcherVars, retryVars>>
    \/ NoClickPending /\ togglePlayPause /\ previewEffect /\ UNCHANGED <<stitcherVars, retryVars>>
    \/ NoClickPending /\ handlePlayheadMouseDown /\ previewEffect /\ UNCHANGED <<stitcherVars, retryVars>>
    \/ NoClickPending /\ (\E px \in PointerXs : handleMouseMove(px)) /\ previewEffect /\ UNCHANGED <<stitcherVars, retryVars>>
    \/ NoClickPending /\ (\E click \in ReleaseClicks : handleMouseUp(click)) /\ previewEffect /\ UNCHANGED <<stitcherVars, retryVars>>
    \/ NoClickPending /\ (\E px \in PointerXs : handleTimelineClick(px)) /\ previewEffect /\ UNCHANGED <<stitcherVars, retryVars>>
    \/ ~NoClickPending /\ handleTimelineClick(pendingClick.px) /\ previewEffect /\ UNCHANGED <<stitcherVars, retryVars>>
    \/ NoClickPending /\ videoLoadedMetadata /\ UNCHANGED <<stitcherVars, retryVars>>

PreviewSpec == PreviewInit /\ [][PreviewNext]_vars

-----------------------------------------------------------------------------
(* Export, strategy A: exportTimeline *)

FPS == 30

\* const frameDuration = 1 / FPS
FrameDuration == UnitsPerSecond \div FPS

\* [...clips].sort(cmp), which is stable; before[i, j] is
\* cmp(clips[i], clips[j]) < 0
StableSort(clips, before) ==
    LET n == Len(clips)
        Pos(i) == Cardinality({j \in 1..n :
                     \/ before[j, i]
                     \/ (~before[i, j] /\ j < i)}) + 1
    IN  [p \in 1..n |-> clips[CHOOSE i \in 1..n : Pos(i) = p]]

\* (a, b) => a.startTime - b.startTime
ByStartTime(a, b) == a.startTime < b.startTime

StartOrder(clips) ==
    [i \in DOMAIN clips, j \in DOMAIN clips |-> ByStartTime(clips[i], clips[j])]

IsARoll(c) == c.track = "a-roll"

MinusInfinity == -1

\* Math.max(...sortedTimeline.map((c) => c.startTime + c.duration))
ExportTotalDuration(clips) ==
    IF Len(clips) = 0 THEN MinusInfinity ELSE SetMax(Ends(clips))

\* sortedTimeline.find((c) => c.track === "a-roll")
ExportARoll(sorted) ==
    LET a == SelectSeq(sorted, IsARoll) IN IF Len(a) > 0 THEN a[1] ELSE NoClip

\* sortedTimeline.filter((c) => c.track === "b-roll")
ExportBRolls(sorted) == SelectSeq(sorted, IsBRoll)

\* what renderFrame seeks and draws at time t: the first b-roll of bRollClips
\* containing t at t - startTime, otherwise the a-roll video at t
RenderedFrame(sorted, t) ==
    LET active == SelectSeq(ExportBRolls(sorted), LAMBDA c : IsActiveAt(c, t))
    IN  IF Len(active) > 0
        THEN FrameOf(active[1], t - active[1].startTime)
        ELSE FrameOf(ExportARoll(sorted), t)

\* variant: the share of the timeline still to be rendered
ProgressPercentLeft(t, total) ==
    LET k == t \div FrameDuration
        m == total \div FrameDuration
    IN  100 - (200 * k + m) \div (2 * m)

\* Math.round((currentTime / totalDuration) * 100), both on the frame grid
ProgressPercent(t, total) ==
    LET k == t \div FrameDuration
        m == total \div FrameDuration
    IN  (200 * k + m) \div (2 * m)

\* the call, up to its first await or throw: the recorder is started before the
\* a-roll is looked up
exportTimeline ==
    /\ aPc = "idle"
    /\ aSorted' = StableSort(timelineClips, StartOrder(timelineClips))
    /\ aRecorder' = "recording"
    /\ aPc' = IF ExportARoll(aSorted') = NoClip THEN "failed" ELSE "loading-aroll"
    /\ UNCHANGED <<aLoaded, aTime, aFrame, aProgress, editorVars, exportBVars>>

\* aRollVideo.onloadeddata
aRollLoaded ==
    /\ aPc = "loading-aroll"
    /\ aPc' = "loading-broll"
    /\ UNCHANGED <<aSorted, aRecorder, aLoaded, aTime, aFrame, aProgress,
                   editorVars, exportBVars>>

\* video.onloadeddata of the next b-roll placement
bRollLoaded ==
    /\ aPc = "loading-broll"
    /\ aLoaded < Len(ExportBRolls(aSorted))
    /\ aLoaded' = aLoaded + 1
    /\ UNCHANGED <<aPc, aSorted, aRecorder, aTime, aFrame, aProgress,
                   editorVars, exportBVars>>

\* await aRollVideo.play() resolves: the render loop starts at 0
aRollPlaying ==
    /\ aPc = "loading-broll"
    /\ aLoaded = Len(ExportBRolls(aSorted))
    /\ aPc' = "rendering"
    /\ aTime' = 0
    /\ UNCHANGED <<aSorted, aRecorder, aLoaded, aFrame, aProgress,
                   editorVars, exportBVars>>

\* currentTime >= totalDuration, currentTime being the sum of k additions of
\* 1/30 in binary floating point, each one rounded; aTime is the exact k/30.
\* Away from totalDuration the rounding does not count.  Where k/30 is
\* totalDuration the sum is either side of it: below for 10 s (the sum of 300
\* is 9.999999999999975), for 3 s, 4 s, 5 s, 6 s; not below for 2 s and 45 s.
SumReaches(t, total) == IF t = total THEN {TRUE, FALSE} ELSE {t >= total}

\* one renderFrame; at the end of the timeline render() resolves and
\* mediaRecorder.stop() is called
renderFrame ==
    /\ aPc = "rendering"
    /\ \E reached \in SumReaches(aTime, ExportTotalDuration(aSorted)) :
          IF reached
          THEN /\ aPc' = "stopping"
               /\ aRecorder' = "inactive"
               /\ UNCHANGED <<aTime, aFrame, aProgress>>
          ELSE /\ aProgress' = ProgressPercent(aTime, ExportTotalDuration(aSorted))
               /\ aFrame' = RenderedFrame(aSorted, aTime)
               /\ aTime' = aTime + FrameDuration
               /\ UNCHANGED <<aPc, aRecorder>>
    /\ UNCHANGED <<aSorted, aLoaded, editorVars, exportBVars>>

\* mediaRecorder.onstop: the blob URL is returned
recorderStopped ==
    /\ aPc = "stopping"
    /\ aPc' = "complete"
    /\ UNCHANGED <<aSorted, aRecorder, aLoaded, aTime, aFrame, aProgress,
                   editorVars, exportBVars>>

-----------------------------------------------------------------------------
(* Export, strategy B: handleExport *)

\* ffmpeg.load() resolves
loadFFmpeg ==
    /\ ~ffmpegLoaded
    /\ ffmpegLoaded' = TRUE
    /\ UNCHANGED <<isExporting, exportProgress, progressLog, alerted, bPc, bSorted, fileMap,
                   graph, editorVars, exportAVars>>

\* variant: the comparison by track alone
ByTrackOnly(a, b) == a.track # b.track /\ a.track = "a-roll"

\* (a, b) => a.track !== b.track ? (a.track === "a-roll" ? -1 : 1)
\*                                : a.startTime - b.startTime
ByTrackThenStart(a, b) ==
    IF a.track # b.track THEN a.track = "a-roll" ELSE a.startTime < b.startTime

TrackThenStartOrder(clips) ==
    [i \in DOMAIN clips, j \in DOMAIN clips |->
        ByTrackThenStart(clips[i], clips[j])]

Urls(s) == {s[i] : i \in DOMAIN s}

\* fileMap.get(url): the index of the input file written for url
FileOf(fm, url) == CHOOSE i \in DOMAIN fm : fm[i] = url

\* the filter graph and inputs: the first a-roll as base with one time-gated
\* overlay per b-roll, or without a-roll the concat of the b-rolls; [out] is the
\* label of the last overlay, or of the concat
BuildGraph(sorted, fm) ==
    LET aRollClips == SelectSeq(sorted, IsARoll)
        bRollClips == SelectSeq(sorted, IsBRoll)
        bFiles == [i \in 1..Len(bRollClips) |-> FileOf(fm, bRollClips[i].videoClip.url)]
        total == SetMax(Ends(sorted) \cup {0})
    IN  IF Len(aRollClips) > 0
        THEN [kind |-> "overlay", base |-> aRollClips[1], overlays |-> bRollClips,
              inputs |-> <<FileOf(fm, aRollClips[1].videoClip.url)>> \o bFiles,
              hasOut |-> Len(bRollClips) > 0, t |-> total]
        ELSE [kind |-> "concat", base |-> NoClip, overlays |-> bRollClips,
              inputs |-> bFiles, hasOut |-> TRUE, t |-> total]

\* overlay=enable='between(t,start,start+duration)': both ends included
OverlayEnabled(c, t) == t >= c.startTime /\ t <= c.startTime + c.duration

\* what the overlay graph shows at output time t: the last enabled overlay of
\* the chain is on top, its input shifted by setpts to start at startTime;
\* under it the base input from its own start
GraphShows(g, t) ==
    LET on == SelectSeq(g.overlays, LAMBDA c : OverlayEnabled(c, t))
    IN  IF Len(on) > 0
        THEN FrameOf(on[Len(on)], t - on[Len(on)].startTime)
        ELSE FrameOf(g.base, t)

NoClipsMessage == "No clips on timeline to export"

StillLoadingMessage == "FFmpeg is still loading. Please wait a moment and try again."

ExportFailedMessage == "Export failed. Please check the console for details."

\* variant: the request is refused only for the empty timeline
RefusalOfEmpty(clips, loaded) ==
    IF Len(clips) = 0 THEN NoClipsMessage ELSE ""

\* the message handleExport refuses the request with, "" when it goes ahead
Refusal(clips, loaded) ==
    IF Len(clips) = 0 THEN NoClipsMessage
    ELSE IF ~loaded THEN StillLoadingMessage
    ELSE ""

\* the Export Video button (disabled while exporting), up to the first await
handleExport ==
    /\ ~isExporting
    /\ IF Refusal(timelineClips, ffmpegLoaded) # ""
       THEN /\ alerted' = Refusal(timelineClips, ffmpegLoaded)
            /\ UNCHANGED <<ffmpegLoaded, isExporting, exportProgress, progressLog,
                           bPc, bSorted, fileMap, graph>>
       ELSE /\ isExporting' = TRUE
            /\ UNCHANGED alerted
            /\ exportProgress' = "Loading videos..."
            /\ progressLog' = <<"Preparing...", "Loading videos...">>
            /\ bPc' = "loading-media"
            /\ bSorted' = StableSort(timelineClips, TrackThenStartOrder(timelineClips))
            /\ fileMap' = <<>>
            /\ graph' = NoGraph
            /\ UNCHANGED ffmpegLoaded
    /\ UNCHANGED <<editorVars, exportAVars>>

\* variant: one file per placement, whether or not its URL is in fileMap
UnwrittenPlacements(sorted, fm) == SubSeq(sorted, Len(fm) + 1, Len(sorted))

\* the placements of sorted whose URL is not yet in fileMap
Unwritten(sorted, fm) == SelectSeq(sorted, LAMBDA c : c.videoClip.url \notin Urls(fm))

\* fetchFile and ffmpeg.writeFile of the next URL not yet in fileMap
writeFile ==
    /\ bPc = "loading-media"
    /\ Len(Unwritten(bSorted, fileMap)) > 0
    /\ fileMap' = Append(fileMap, Unwritten(bSorted, fileMap)[1].videoClip.url)
    /\ UNCHANGED <<ffmpegLoaded, isExporting, exportProgress, progressLog, alerted, bPc,
                   bSorted, graph, editorVars, exportAVars>>

\* variant: ffmpeg.exec called without the building step being announced
execGraphUnannounced ==
    /\ bPc = "loading-media"
    /\ Len(Unwritten(bSorted, fileMap)) = 0
    /\ graph' = BuildGraph(bSorted, fileMap)
    /\ exportProgress' = "Encoding video..."
    /\ progressLog' = Append(progressLog, "Encoding video...")
    /\ bPc' = "encoding"
    /\ UNCHANGED <<ffmpegLoaded, isExporting, alerted, bSorted, fileMap, editorVars,
                   exportAVars>>

\* every URL is written: the graph is built and ffmpeg.exec called
execGraph ==
    /\ bPc = "loading-media"
    /\ Len(Unwritten(bSorted, fileMap)) = 0
    /\ graph' = BuildGraph(bSorted, fileMap)
    /\ exportProgress' = "Encoding video..."
    /\ progressLog' = progressLog \o <<"Building timeline...", "Encoding video...">>
    /\ bPc' = "encoding"
    /\ UNCHANGED <<ffmpegLoaded, isExporting, alerted, bSorted, fileMap, editorVars,
                   exportAVars>>

\* ffmpeg.exec resolves (with an exit code: it does not throw when -map "[out]"
\* names no label of the graph, it writes no output.mp4)
execDone ==
    /\ bPc = "encoding"
    /\ exportProgress' = "Downloading..."
    /\ progressLog' = Append(progressLog, "Downloading...")
    /\ bPc' = "finalizing"
    /\ UNCHANGED <<ffmpegLoaded, isExporting, alerted, bSorted, fileMap, graph,
                   editorVars, exportAVars>>

\* ffmpeg.readFile("output.mp4") and the download; readFile throws when there
\* is no output.mp4, and the catch block resets the export state
readFile ==
    /\ bPc = "finalizing"
    /\ IF graph.hasOut
       THEN /\ exportProgress' = "Complete!"
            /\ progressLog' = Append(progressLog, "Complete!")
            /\ bPc' = "complete"
            /\ UNCHANGED <<isExporting, alerted>>
       ELSE /\ alerted' = ExportFailedMessage
            /\ exportProgress' = ""
            /\ progressLog' = Append(progressLog, "")
            /\ bPc' = "failed"
            /\ isExporting' = FALSE
    /\ UNCHANGED <<ffmpegLoaded, bSorted, fileMap, graph, editorVars, exportAVars>>

\* variant: the catch block without setIsExporting(false)
exportFailedStillBusy ==
    /\ bPc \in {"loading-media", "encoding"}
    /\ alerted' = ExportFailedMessage
    /\ exportProgress' = ""
    /\ progressLog' = Append(progressLog, "")
    /\ bPc' = "failed"
    /\ UNCHANGED <<ffmpegLoaded, isExporting, bSorted, fileMap, graph, editorVars,
                   exportAVars>>

\* fetchFile, ffmpeg.writeFile or ffmpeg.exec rejects: the catch block resets
\* the export state
exportFailed ==
    /\ bPc \in {"loading-media", "encoding"}
    /\ alerted' = ExportFailedMessage
    /\ exportProgress' = ""
    /\ progressLog' = Append(progressLog, "")
    /\ bPc' = "failed"
    /\ isExporting' = FALSE
    /\ UNCHANGED <<ffmpegLoaded, bSorted, fileMap, graph, editorVars, exportAVars>>

\* the 2 s timer after "Complete!"
exportReset ==
    /\ bPc = "complete"
    /\ isExporting
    /\ isExporting' = FALSE
    /\ exportProgress' = ""
    /\ progressLog' = Append(progressLog, "")
    /\ UNCHANGED <<ffmpegLoaded, alerted, bPc, bSorted, fileMap, graph, editorVars,
                   exportAVars>>

\* Export: one run of exportTimeline and the runs of handleExport over each
\* timeline, the timeline not edited meanwhile.
ExportNext ==
    \/ exportTimeline /\ UNCHANGED <<stitcherVars, retryVars>>
    \/ aRollLoaded /\ UNCHANGED <<stitcherVars, retryVars>>
    \/ bRollLoaded /\ UNCHANGED <<stitcherVars, retryVars>>
    \/ aRollPlaying /\ UNCHANGED <<stitcherVars, retryVars>>
    \/ renderFrame /\ UNCHANGED <<stitcherVars, retryVars>>
    \/ recorderStopped /\ UNCHANGED <<stitcherVars, retryVars>>
    \/ loadFFmpeg /\ UNCHANGED <<stitcherVars, retryVars>>
    \/ handleExport /\ UNCHANGED <<stitcherVars, retryVars>>
    \/ writeFile /\ UNCHANGED <<stitcherVars, retryVars>>
    \/ execGraph /\ UNCHANGED <<stitcherVars, retryVars>>
    \/ execDone /\ UNCHANGED <<stitcherVars, retryVars>>
    \/ readFile /\ UNCHANGED <<stitcherVars, retryVars>>
    \/ exportFailed /\ UNCHANGED <<stitcherVars, retryVars>>
    \/ exportReset /\ UNCHANGED <<stitcherVars, retryVars>>

\* an uploaded file of 5 s
FiveSecondUpload == [id |-> "u5", url |-> "uu5", duration |-> Sec(5), type |-> "upload"]

\* two drops of that asset on the b-roll track, at 0 s and at 5 s, no a-roll
ConcatScenario ==
    << DroppedClip(FiveSecondUpload, 1, TRACK_LABEL_WIDTH, "b-roll", 4),
       DroppedClip(FiveSecondUpload, 2, TRACK_LABEL_WIDTH + 5 * BASE_PIXELS_PER_SECOND,
                   "b-roll", 4) >>

ExportInit ==
    /\ \E clips \in Timelines \cup {ConcatScenario} : InitTimeline(clips)
    /\ InitExport
    /\ InitStitcher
    /\ InitRetry

ExportSpec == ExportInit /\ [][ExportNext]_vars

\* The runs of handleExport alone, each awaited step settling: every fetch and
\* write, the exec and the read resolve or reject, and the 2 s timer fires.
HandleExportNext ==
    \/ loadFFmpeg /\ UNCHANGED <<stitcherVars, retryVars>>
    \/ handleExport /\ UNCHANGED <<stitcherVars, retryVars>>
    \/ writeFile /\ UNCHANGED <<stitcherVars, retryVars>>
    \/ execGraph /\ UNCHANGED <<stitcherVars, retryVars>>
    \/ execDone /\ UNCHANGED <<stitcherVars, retryVars>>
    \/ readFile /\ UNCHANGED <<stitcherVars, retryVars>>
    \/ exportFailed /\ UNCHANGED <<stitcherVars, retryVars>>
    \/ exportReset /\ UNCHANGED <<stitcherVars, retryVars>>

\* the awaited step of the run under way settles, resolved or rejected
stepSettles ==
    /\ writeFile \/ execGraph \/ execDone \/ readFile \/ exportFailed
    /\ UNCHANGED <<stitcherVars, retryVars>>

\* the 2 s timer of the completed run fires
timerOfCompleteFires == exportReset /\ UNCHANGED <<stitcherVars, retryVars>>

HandleExportSpec ==
    /\ ExportInit
    /\ [][HandleExportNext]_vars
    /\ WF_vars(stepSettles)
    /\ WF_vars(timerOfCompleteFires)

-----------------------------------------------------------------------------
(* The Stitcher *)

\* the clips the generators deliver
StitcherClips ==
    { [id |-> "c1", url |-> "uc1"], [id |-> "c2", url |-> "uc2"],
      [id |-> "c3", url |-> "uc3"] }

\* the highest index the skip forward button is followed to
MaxIndex == 3

\* playlist[index], undefined outside the playlist
HasClipAt(list, index) == index + 1 \in DOMAIN list

\* The render after a handler set the playlist, the index, the preview mode
\* and isPlaying, followed by the source change effect.  The video element is
\* rendered while the index is not null; `halted` says the handler or the
\* element itself paused it.  The effect runs when the index or the playlist
\* changed and the index is not null: it returns when there is no clip at the
\* index, otherwise it assigns the clip's URL, loads it, and plays it (then
\* setIsPlaying(true)) or, in preview mode, pauses it (setIsPlaying(false)).
Render(list, index, preview, playing, halted) ==
    LET element == IF index = NoIndex THEN NoStitcherVideo
                   ELSE IF currentPlayingIndex = NoIndex THEN NoStitcherVideo
                   ELSE IF halted THEN [stitcherVideo EXCEPT !.paused = TRUE]
                   ELSE stitcherVideo
        runs == /\ <<index, list>> # <<currentPlayingIndex, playlist>>
                /\ index # NoIndex
                /\ HasClipAt(list, index)
    IN  /\ playlist' = list
        /\ currentPlayingIndex' = index
        /\ isPreviewMode' = preview
        /\ stitcherVideo' = IF runs
                            THEN [src |-> list[index + 1].url, paused |-> preview]
                            ELSE element
        /\ stitcherIsPlaying' = IF runs THEN ~preview ELSE playing

\* the prop clips gets a new clip: the effect on [initialClips] appends the
\* clips whose id the playlist does not hold
clipsChanged(clip) ==
    /\ \A c \in Range(initialClips) : c.id # clip.id
    /\ initialClips' = Append(initialClips, clip)
    /\ Render(playlist \o SelectSeq(initialClips',
                                    LAMBDA c : \A q \in Range(playlist) : q.id # c.id),
              currentPlayingIndex, isPreviewMode, stitcherIsPlaying, FALSE)
    /\ UNCHANGED <<editorVars, exportVars, retryVars>>

\* onClick of the playlist item at index
itemClick(index) ==
    /\ HasClipAt(playlist, index)
    /\ Render(playlist, index, TRUE, stitcherIsPlaying, FALSE)
    /\ UNCHANGED <<initialClips, editorVars, exportVars, retryVars>>

\* [newPlaylist[index], newPlaylist[targetIndex]] = [newPlaylist[targetIndex], newPlaylist[index]]
Swapped(list, index, targetIndex) ==
    [k \in DOMAIN list |->
        IF k = index + 1 THEN list[targetIndex + 1]
        ELSE IF k = targetIndex + 1 THEN list[index + 1]
        ELSE list[k]]

\* the up (-1) or down (+1) button of the item at index, disabled at the ends:
\* moveItem(index, direction), then the click reaches the item's onClick
moveItem(index, direction) ==
    /\ HasClipAt(playlist, index)
    /\ HasClipAt(playlist, index + direction)
    /\ Render(Swapped(playlist, index, index + direction), index, TRUE,
              stitcherIsPlaying, FALSE)
    /\ UNCHANGED <<initialClips, editorVars, exportVars, retryVars>>

\* currentPlayingIndex !== null && playlist[currentPlayingIndex]?.id === id
IsPlayingItem(id) ==
    /\ currentPlayingIndex # NoIndex
    /\ HasClipAt(playlist, currentPlayingIndex)
    /\ playlist[currentPlayingIndex + 1].id = id

\* the remove button of the item at index: removeItem(clip.id), with
\* stopSequence() when the item is the one playing, then the click reaches the
\* item's onClick, which sets the preview mode and the index
removeItem(index) ==
    /\ HasClipAt(playlist, index)
    /\ LET id == playlist[index + 1].id
       IN  Render(SelectSeq(playlist, LAMBDA item : item.id # id), index, TRUE,
                  IF IsPlayingItem(id) THEN FALSE ELSE stitcherIsPlaying,
                  IsPlayingItem(id))
    /\ UNCHANGED <<initialClips, editorVars, exportVars, retryVars>>

\* the Play Sequence button, disabled while the playlist is empty or a clip is
\* playing
startSequence ==
    /\ Len(playlist) > 0
    /\ ~(currentPlayingIndex # NoIndex /\ stitcherIsPlaying)
    /\ Render(playlist, 0, FALSE, TRUE, FALSE)
    /\ UNCHANGED <<initialClips, editorVars, exportVars, retryVars>>

\* the play/pause button and the click on the video, both rendered while the
\* index is not null
stitcherTogglePlayPause ==
    /\ currentPlayingIndex # NoIndex
    /\ stitcherVideo' = [stitcherVideo EXCEPT !.paused = ~stitcherVideo.paused]
    /\ stitcherIsPlaying' = stitcherVideo.paused
    /\ UNCHANGED <<initialClips, playlist, currentPlayingIndex, isPreviewMode,
                   editorVars, exportVars, retryVars>>

\* the skip back button, disabled at index 0
stitcherSkipBack ==
    /\ currentPlayingIndex # NoIndex
    /\ currentPlayingIndex # 0
    /\ Render(playlist, currentPlayingIndex - 1, isPreviewMode, stitcherIsPlaying, FALSE)
    /\ UNCHANGED <<initialClips, editorVars, exportVars, retryVars>>

\* the skip forward button, disabled at index playlist.length - 1
stitcherSkipForward ==
    /\ currentPlayingIndex # NoIndex
    /\ currentPlayingIndex # Len(playlist) - 1
    /\ currentPlayingIndex < MaxIndex
    /\ Render(playlist, currentPlayingIndex + 1, isPreviewMode, stitcherIsPlaying, FALSE)
    /\ UNCHANGED <<initialClips, editorVars, exportVars, retryVars>>

\* the element reaches the end of its source while playing: it pauses and
\* fires ended
handleVideoEnded ==
    /\ currentPlayingIndex # NoIndex
    /\ stitcherVideo.src # ""
    /\ ~stitcherVideo.paused
    /\ IF currentPlayingIndex < Len(playlist) - 1
       THEN Render(playlist, currentPlayingIndex + 1, isPreviewMode,
                   stitcherIsPlaying, TRUE)
       ELSE Render(playlist, currentPlayingIndex, isPreviewMode, FALSE, TRUE)
    /\ UNCHANGED <<initialClips, editorVars, exportVars, retryVars>>

StitcherNext ==
    \/ \E clip \in StitcherClips : clipsChanged(clip)
    \/ \E index \in 0..MaxIndex : itemClick(index)
    \/ \E index \in 0..MaxIndex, direction \in {-1, 1} : moveItem(index, direction)
    \/ \E index \in 0..MaxIndex : removeItem(index)
    \/ startSequence
    \/ stitcherTogglePlayPause
    \/ stitcherSkipBack
    \/ stitcherSkipForward
    \/ handleVideoEnded

StitcherSpec == Init /\ [][StitcherNext]_vars

-----------------------------------------------------------------------------
(* withRetry *)

\* retries = 3
DEFAULT_RETRIES == 3

\* the largest retries the call is made with
MaxRetries == 4

\* setTimeout(r, 1000 * (i + 1))
RETRY_DELAY_MS == 1000

\* what a call of fn settles with: the segments, or one of the errors of
\* callGemini and of the parsing
FnOutcomes ==
    { [kind |-> "value", value |-> "segments"],
      [kind |-> "error", value |-> "http error"],
      [kind |-> "error", value |-> "Gemini returned empty response"],
      [kind |-> "error", value |-> "Invalid JSON format from Gemini"] }

\* throw new Error("Retry failed")
RetryFailed == [kind |-> "error", value |-> "Retry failed"]

\* variant: i === retries
IsPastLastAttempt(index, n) == index = n

\* i === retries - 1
IsLastAttempt(index, n) == index = n - 1

\* withRetry(fn, n), up to the first await: the loop is entered when 0 < n
withRetry(n) ==
    /\ retryPc = "idle"
    /\ retries' = n
    /\ retryI' = 0
    /\ retryCalls' = <<>>
    /\ retryWaits' = <<>>
    /\ IF 0 < n
       THEN retryPc' = "calling" /\ retryOutcome' = NoOutcome
       ELSE retryPc' = "thrown" /\ retryOutcome' = RetryFailed
    /\ UNCHANGED <<editorVars, exportVars, stitcherVars>>

\* await fn() settles: its value is returned; its error is rethrown on the
\* last attempt and otherwise followed by the timer
fnSettles(outcome) ==
    /\ retryPc = "calling"
    /\ retryCalls' = Append(retryCalls, outcome)
    /\ IF outcome.kind = "value"
       THEN /\ retryPc' = "returned"
            /\ retryOutcome' = outcome
            /\ UNCHANGED retryWaits
       ELSE IF IsLastAttempt(retryI, retries)
       THEN /\ retryPc' = "thrown"
            /\ retryOutcome' = outcome
            /\ UNCHANGED retryWaits
       ELSE /\ retryPc' = "waiting"
            /\ retryWaits' = Append(retryWaits, RETRY_DELAY_MS * (retryI + 1))
            /\ UNCHANGED retryOutcome
    /\ UNCHANGED <<retries, retryI, editorVars, exportVars, stitcherVars>>

\* the timer fires: i++, and the loop goes on while i < retries
timerFires ==
    /\ retryPc = "waiting"
    /\ retryI' = retryI + 1
    /\ IF retryI + 1 < retries
       THEN retryPc' = "calling" /\ UNCHANGED retryOutcome
       ELSE retryPc' = "thrown" /\ retryOutcome' = RetryFailed
    /\ UNCHANGED <<retries, retryCalls, retryWaits, editorVars, exportVars, stitcherVars>>

RetryNext ==
    \/ \E n \in 0..MaxRetries : withRetry(n)
    \/ \E outcome \in FnOutcomes : fnSettles(outcome)
    \/ timerFires

\* every call of fn settles and every timer fires
RetrySpec ==
    /\ Init
    /\ [][RetryNext]_vars
    /\ WF_vars(\E outcome \in FnOutcomes : fnSettles(outcome))
    /\ WF_vars(timerFires)

-----------------------------------------------------------------------------
(* Properties of the preview resolver and the transport (TransportSpec) *)

\* the position of placement c in the timeline: its insertion order
Position(clips, c) == CHOOSE i \in DOMAIN clips : clips[i] = c

Contains(c, t) == c.startTime <= t /\ t < c.startTime + c.duration

\* the a-roll {start 0, duration 10} with the b-roll {start 3, duration 2}
ScenarioTimeline ==
    << ARollClip(CHOOSE a \in ARollProps : a.duration = Sec(10), 1),
       DroppedClip(InitialBRolls[1], 2, 230, "b-roll", 4) >>

\* C1: whenever some b-roll placement contains currentTime, the placement the
\* preview resolver picks is a b-roll placement, whatever a-roll placements
\* contain currentTime and whatever the insertion order is.
C1_OverlayPrecedence ==
    (\E c \in Range(timelineClips) : IsBRoll(c) /\ Contains(c, currentTime))
        => IsBRoll(ActiveClip(timelineClips, currentTime))

\* an a-roll inserted before a b-roll, both containing a currentTime playback
\* has reached, and the b-roll picked
C1_Witness ==
    /\ currentTime > 0
    /\ \E i, j \in DOMAIN timelineClips :
          /\ i < j
          /\ IsARoll(timelineClips[i]) /\ Contains(timelineClips[i], currentTime)
          /\ IsBRoll(timelineClips[j]) /\ Contains(timelineClips[j], currentTime)
          /\ ActiveClip(timelineClips, currentTime) = timelineClips[j]

\* C3: the placement resolved at currentTime is one whose half-open interval
\* [startTime, startTime + duration) contains currentTime, and none is resolved
\* exactly when no interval contains it; for the a-roll {0, 10} with the b-roll
\* {3, 2} it is the a-roll at 1 s, the b-roll at 3 s and 4 s, the a-roll at 5 s
\* and 6 s, and none at 10 s.
C3_HalfOpenInterval ==
    LET pick == ActiveClip(timelineClips, currentTime)
    IN  /\ pick # NoClip => pick \in Range(timelineClips) /\ Contains(pick, currentTime)
        /\ pick = NoClip <=> ~\E c \in Range(timelineClips) : Contains(c, currentTime)
        /\ timelineClips = ScenarioTimeline =>
              /\ currentTime \in {Sec(1), Sec(5), Sec(6)} => pick = ScenarioTimeline[1]
              /\ currentTime \in {Sec(3), Sec(4)} => pick = ScenarioTimeline[2]
              /\ currentTime = Sec(10) => pick = NoClip

\* playback over the scenario reaches the end of the b-roll's interval, where
\* the a-roll is resolved again
C3_Witness ==
    /\ timelineClips = ScenarioTimeline
    /\ isPlaying
    /\ currentTime = Sec(5)
    /\ ActiveClip(timelineClips, currentTime) = ScenarioTimeline[1]

\* C6: totalDuration is the maximum of startTime + duration over the
\* placements, 45 s for the empty timeline, and the end of playback and the
\* playhead clamp use the same value.
C6_OneTotalDuration ==
    /\ totalDuration = IF timelineClips = <<>> THEN Sec(45)
                       ELSE SetMax(Ends(timelineClips))
    /\ TickMaxTime(timelineClips) = totalDuration
    /\ PlayheadMaxTime(timelineClips) = totalDuration

\* C7: a tick taken with currentTime < totalDuration advances currentTime and
\* keeps playing; a tick taken with currentTime >= totalDuration stops playback
\* and resets currentTime to 0.
C7_TickAtEnd ==
    [][Tick => IF currentTime < totalDuration
               THEN currentTime' > currentTime /\ isPlaying'
               ELSE currentTime' = 0 /\ ~isPlaying']_vars

\* C8: 0 <= currentTime <= totalDuration in every state.
C8_TransportInvariant == 0 <= currentTime /\ currentTime <= totalDuration

-----------------------------------------------------------------------------
(* Properties of the two export strategies (ExportSpec) *)

\* the time of the frame exportTimeline drew last
FrameTime == aTime - FrameDuration

FrameDrawn == aPc \in {"rendering", "stopping", "complete"} /\ aTime > 0

ActiveBRolls(t) == {c \in Range(timelineClips) : IsBRoll(c) /\ Contains(c, t)}

C4_StrategiesAgree ==
    /\ (aPc \in {"complete", "failed"} /\ bPc \in {"complete", "failed"})
          => aPc = bPc
    /\ (aPc = "complete" /\ bPc = "complete")
          => ExportTotalDuration(aSorted) = graph.t
    /\ (FrameDrawn /\ graph.kind = "overlay")
          => aFrame = GraphShows(graph, FrameTime)

\* C5: every frame exportTimeline draws shows the placement, at the in-clip
\* offset, that the preview resolves at the frame's time, and nothing where the
\* preview resolves nothing.
C5_ExportMatchesPreview ==
    FrameDrawn => aFrame = PreviewFrame(timelineClips, FrameTime)

-----------------------------------------------------------------------------
(* Properties of the placements (Spec) *)

\* the time a placement drag asks for: the pointer's position less the offset
\* recorded at the press
RequestedTime(px) ==
    (4 * (px - TRACK_LABEL_WIDTH) - dragOffset) * UnitsPerQuarterPixel(zoom)

\* the timeline after a move of placement id to newStart that touches nothing
\* else
OnlyStartTimeMoved(id, newStart) ==
    /\ DOMAIN timelineClips' = DOMAIN timelineClips
    /\ \A i \in DOMAIN timelineClips :
          timelineClips'[i] =
              IF timelineClips[i].id = id
              THEN [id |-> timelineClips[i].id,
                    videoClip |-> timelineClips[i].videoClip,
                    startTime |-> newStart,
                    duration |-> timelineClips[i].duration,
                    track |-> timelineClips[i].track]
              ELSE timelineClips[i]

\* C9 (as the code has it): a mousemove of a placement drag changes only the
\* startTime of the dragged placement, to max(0, requested time) rounded to the
\* nearest 0.1 s; its id, asset, track and duration and every other placement
\* are unchanged.
C9_DragMovesOnlyStart ==
    [][\A px \in PointerXs :
          (ClipDragBound /\ handleMouseMove(px))
              => OnlyStartTimeMoved(draggingClipId,
                                    RoundTenth(Max0(RequestedTime(px))))]_vars

\* a placement pressed 100 px right of its left edge and dragged from 0 s to
\* 5 s, next to a second placement
C9_Witness ==
    /\ ClipDragBound
    /\ Len(timelineClips) = 2
    /\ dragOffset = 400
    /\ \E c \in Range(timelineClips) : c.id = draggingClipId /\ c.startTime = Sec(5)

\* C9 as stated: the dragged placement's startTime becomes max(0, requested
\* time) itself.
C9_DragToRequestedTime ==
    [][\A px \in PointerXs :
          (ClipDragBound /\ handleMouseMove(px))
              => OnlyStartTimeMoved(draggingClipId, Max0(RequestedTime(px)))]_vars

-----------------------------------------------------------------------------
(* Properties of the library (LibrarySpec) *)

\* C11: whenever an asset leaves the library, by a removal or by the library
\* being replaced from the props, no placement of the timeline refers to it
\* after the step.
C11_CascadeOnRemoval ==
    [][\A asset \in Range(bRolls) :
          asset \notin Range(bRolls')
              => \A c \in Range(timelineClips') : c.videoClip # asset]_vars

-----------------------------------------------------------------------------
(* Properties of the pointer gestures (Spec) *)

\* C12: no two of the drag flags are set together; stated for the two mouse
\* gestures, whose presses no browser keeps apart: isDraggingTimelineClip and
\* isDraggingPlayhead are never both set.
C12_ExclusiveDrags == ~(isDraggingTimelineClip /\ isDraggingPlayhead)

\* no gesture is under way: no drag flag set, nothing dragged, no offset kept
NoGesture ==
    /\ ~isDragging /\ ~isDraggingTimelineClip /\ ~isDraggingPlayhead
    /\ draggingClipId = NoId
    /\ draggedClip = NoAsset
    /\ dragOffset = 0

\* C13: after the release event of a gesture (a mouseup, a drop, a dragend) no
\* drag flag is set, draggingClipId and draggedClip are null and dragOffset is
\* 0, so that no listener is left to act on later pointer moves.
C13_ReleaseEndsGesture ==
    [][(\/ \E click \in ReleaseClicks : handleMouseUp(click)
        \/ \E px \in PointerXs, track \in Tracks : handleDrop(px, track)
        \/ onDragEnd)
          => NoGesture']_vars

\* C14: the click that the release of a placement gesture delivers to the
\* tracks container does not change currentTime.
C14_PlacementClickDoesNotSeek ==
    [][(pendingClick.target = "placement" /\ handleTimelineClick(pendingClick.px))
          => currentTime' = currentTime]_vars

\* C15: the press on the playhead handle stops playback and seeks nothing;
\* every move of the playhead drag sets currentTime to the pointer's time
\* clamped to [0, totalDuration]; neither changes the placements.
C15_PlayheadDrag ==
    [][/\ handlePlayheadMouseDown
            => /\ ~isPlaying'
               /\ currentTime' = currentTime
               /\ timelineClips' = timelineClips
       /\ \A px \in PointerXs :
            (PlayheadDragBound /\ handleMouseMove(px))
                => /\ currentTime' = Min(PointerTime(px, zoom), totalDuration)
                   /\ timelineClips' = timelineClips]_vars

-----------------------------------------------------------------------------
(* Properties of the preview element (PreviewSpec) *)

\* C16: the preview element plays exactly when the transport plays: it is
\* paused whenever isPlaying is false, and it plays whenever isPlaying is true
\* and a placement is active.
C16_PlaybackFollowsFlag ==
    /\ ~isPlaying => video.paused
    /\ (isPlaying /\ ActiveClip(timelineClips, currentTime) # NoClip) => ~video.paused

\* a run of the preview effect that assigns the element's currentTime
SeekAssigned ==
    /\ <<currentTime', timelineClips', isPlaying'>> # <<currentTime, timelineClips, isPlaying>>
    /\ ActiveClip(timelineClips', currentTime') # NoClip

\* C17: the synchronizer assigns the element's currentTime only once the
\* assigned source has signalled its load; no seek is made between the
\* assignment of a source and its load signal.
C17_NoSeekBeforeLoad == [][SeekAssigned => video'.ready]_vars

\* C18: whenever no placement contains currentTime, the preview element has
\* no source to show or play.
C18_IdlePreview ==
    ActiveClip(timelineClips, currentTime) = NoClip => video.src = ""

-----------------------------------------------------------------------------
(* Properties of the export runs (ExportSpec) *)

\* the phases of handleExport as it announces them: preparing, loading-media,
\* building-graph, encoding, finalizing, complete
ExportPhases ==
    <<"Preparing...", "Loading videos...", "Building timeline...",
      "Encoding video...", "Downloading...", "Complete!">>

C20_EmptyExportStartsNothing ==
    Len(timelineClips) = 0
        => /\ aRecorder = "none"
           /\ aPc \in {"idle", "failed"}
           /\ ~isExporting
           /\ bPc \in {"idle", "failed"}
           /\ fileMap = <<>>

\* C21: once a run of exportTimeline has failed, the MediaRecorder it started
\* is no longer recording.
C21_FailureReleasesRecorder == aPc = "failed" => aRecorder # "recording"

\* C22: in a run of handleExport no URL is written twice, only URLs of the
\* run's placements are written, and once the loading is over (the graph is
\* built, the encoder runs) every placement's URL has its input file.
C22_LoadedOncePerUrl ==
    /\ \A i, j \in DOMAIN fileMap : fileMap[i] = fileMap[j] => i = j
    /\ Urls(fileMap) \subseteq {c.videoClip.url : c \in Range(bSorted)}
    /\ (bPc \in {"encoding", "finalizing", "complete"} \/ graph # NoGraph)
          => \A c \in Range(bSorted) : c.videoClip.url \in Urls(fileMap)

\* two placements of one asset exported: one file written for both
C22_Witness ==
    /\ bPc = "encoding"
    /\ Len(bSorted) = 2
    /\ bSorted[1].videoClip.url = bSorted[2].videoClip.url
    /\ Len(fileMap) = 1

\* C23: while the encoder load has not signalled ready, no step writes a file
\* or runs a command: a step either is the load's completion or leaves the
\* export state as it is, but for the message; and a request made on a
\* timeline with placements is answered with the still-loading message.
C23_EncoderGate ==
    [][~ffmpegLoaded =>
          /\ \/ ffmpegLoaded'
             \/ <<isExporting, exportProgress, progressLog, bPc, bSorted, fileMap, graph>>'
                  = <<isExporting, exportProgress, progressLog, bPc, bSorted, fileMap, graph>>
          /\ (handleExport /\ Len(timelineClips) > 0) => alerted' = StillLoadingMessage]_vars

\* an export requested before the load signalled ready, and refused
C23_Witness ==
    /\ ~ffmpegLoaded
    /\ alerted = StillLoadingMessage
    /\ bPc = "idle"
    /\ ~isExporting

RECURSIVE SumOfDurations(_)
SumOfDurations(segments) ==
    IF Len(segments) = 0 THEN 0
    ELSE segments[1].duration + SumOfDurations(Tail(segments))

\* each segment starts where the one before it ends, the first at 0
Contiguous(segments) ==
    /\ Len(segments) > 0
    /\ segments[1].startTime = 0
    /\ \A i \in 1..(Len(segments) - 1) :
          segments[i + 1].startTime = segments[i].startTime + segments[i].duration

C25_OverlayWindow ==
    graph.kind = "overlay"
        => \A c \in Range(graph.overlays) :
              \A t \in {c.startTime, c.startTime + c.duration} :
                  OverlayEnabled(c, t) <=> IsActiveAt(c, t)

\* C26: exportTimeline has drawn one frame for each of the times 0, 1/30,
\* 2/30, ... so far, every one of them below totalDuration, and it leaves the
\* render loop and stops the recorder only once the next frame time has
\* reached totalDuration.
C26_FrameOrder ==
    aPc \in {"rendering", "stopping", "complete"}
        => /\ aTime % FrameDuration = 0
           /\ aTime > 0 => aTime - FrameDuration < ExportTotalDuration(aSorted)
           /\ aPc # "rendering" => aTime >= ExportTotalDuration(aSorted)
           /\ aRecorder = "inactive" => aPc # "rendering"

-----------------------------------------------------------------------------
(* Properties of the asset registry (LibrarySpec) *)

\* C27: no two assets of a registry share an id, in App's clips handed to the
\* editor as in the editor's library.
C27_UniqueAssetIds ==
    /\ \A i, j \in DOMAIN initialBRolls :
          initialBRolls[i].id = initialBRolls[j].id => i = j
    /\ \A i, j \in DOMAIN bRolls : bRolls[i].id = bRolls[j].id => i = j

-----------------------------------------------------------------------------
(* Properties of the pointer conversions (PointerSpec) *)

\* max(0, x / (50 * zoom)) for x quarter pixels right of the track labels
TimeAtQuarterPixels(x, zq) ==
    Max0((x * (UnitsPerSecond \div BASE_PIXELS_PER_SECOND)) \div zq)

\* max(0, (pointerX - trackLabelWidth + scrollOffset) / (50 * zoom))
TimeAt(px, zq) == TimeAtQuarterPixels(4 * (px - TRACK_LABEL_WIDTH), zq)

\* C28 (as the code has it): the click seeks to TimeAt the pointer and the drop
\* places at TimeAt the pointer rounded to 0.1 s; the placement drag places at
\* the time of the pointer less the offset recorded at the press, not below 0,
\* rounded to 0.1 s; the playhead drag seeks to TimeAt the pointer, not beyond
\* max(ends, 45 s).  Each is non-decreasing in the pointer's position and never
\* negative.
C28_PointerToTime ==
    [][/\ \A px \in PointerXs \cup {FarPointerX} :
            (~isDraggingPlayhead /\ ~isDraggingTimelineClip /\ handleTimelineClick(px))
                => currentTime' = TimeAt(px, zoom)
       /\ \A px \in PointerXs, track \in Tracks :
            (draggedClip # NoAsset /\ handleDrop(px, track))
                => timelineClips'[Len(timelineClips')].startTime
                       = RoundTenth(TimeAt(px, zoom))
       /\ \A px \in PointerXs :
            (ClipDragBound /\ handleMouseMove(px))
                => \A c \in Range(timelineClips') :
                      c.id = draggingClipId
                          => c.startTime
                               = RoundTenth(TimeAtQuarterPixels(
                                     4 * (px - TRACK_LABEL_WIDTH) - dragOffset, zoom))
       /\ \A px \in PointerXs \cup {FarPointerX} :
            (PlayheadDragBound /\ handleMouseMove(px))
                => currentTime'
                      = Min(TimeAt(px, zoom),
                            SetMax(Ends(timelineClips) \cup {Sec(PLAYHEAD_FLOOR_SECONDS)}))
       /\ \A p, q \in PointerXs \cup {FarPointerX} :
            p <= q => /\ 0 <= PointerTime(p, zoom)
                      /\ PointerTime(p, zoom) <= PointerTime(q, zoom)
                      /\ 0 <= DragStartTime(p, dragOffset, zoom)
                      /\ DragStartTime(p, dragOffset, zoom)
                            <= DragStartTime(q, dragOffset, zoom)]_vars

\* at zoom 1.5: the playhead dragged to the far position stands at 45 s, and a
\* placement pressed right of its left edge has been dragged to a later start
C28_Witness ==
    /\ zoom = 6
    /\ currentTime = Sec(PLAYHEAD_FLOOR_SECONDS)
    /\ ClipDragBound
    /\ dragOffset > 0
    /\ \E c \in Range(timelineClips) : c.id = draggingClipId /\ c.startTime > 0

\* C28 as stated: the placement drag and the playhead drag too derive
\* max(0, (pointerX - trackLabelWidth + scrollOffset) / (50 * zoom)).
C28_OneRule ==
    [][/\ \A px \in PointerXs :
            (ClipDragBound /\ handleMouseMove(px))
                => \A c \in Range(timelineClips') :
                      c.id = draggingClipId
                          => c.startTime = RoundTenth(TimeAt(px, zoom))
       /\ \A px \in PointerXs \cup {FarPointerX} :
            (PlayheadDragBound /\ handleMouseMove(px))
                => currentTime' = TimeAt(px, zoom)]_vars

\* C29: within one placement drag, a move event at the pointer position of the
\* move event before it leaves the placements and the drag as that event left
\* them: the handler's map applied to the placements it produced, with the
\* offset, the dragged id and the zoom it left, produces them again.
C29_MoveIdempotent ==
    [][\A px \in PointerXs :
          (ClipDragBound /\ handleMouseMove(px))
              => /\ isDraggingTimelineClip' /\ draggingClipId' = draggingClipId
                 /\ MoveClip(timelineClips', draggingClipId',
                             DragStartTime(px, dragOffset', zoom'))
                       = timelineClips']_vars

\* a placement drag at zoom 0.75 whose move at the rightmost pointer position
\* has placed the dragged placement
C29_Witness ==
    /\ zoom = 3
    /\ ClipDragBound
    /\ \E c \in Range(timelineClips) :
          /\ c.id = draggingClipId
          /\ c.startTime > 0
          /\ c.startTime = DragStartTime(431, dragOffset, zoom)

-----------------------------------------------------------------------------
(* Properties of the deletion (Spec) *)

\* C30: the Delete Clip button removes the selected placement and nothing else:
\* the library and the a-roll asset stay, every other placement stays as it
\* was and in its order, other placements of the same asset included, and
\* currentTime, isPlaying and zoom stay.
C30_DeleteRemovesOnlyThePlacement ==
    [][handleDeleteClip
          => /\ bRolls' = bRolls /\ aRoll' = aRoll
             /\ \A c \in Range(timelineClips) :
                   c.id # selectedClip => c \in Range(timelineClips')
             /\ \A i, j \in DOMAIN timelineClips' :
                   i < j => \E k, l \in DOMAIN timelineClips :
                               /\ k < l
                               /\ timelineClips[k] = timelineClips'[i]
                               /\ timelineClips[l] = timelineClips'[j]
             /\ \A c \in Range(timelineClips') :
                   c \in Range(timelineClips) /\ c.id # selectedClip
             /\ Len(timelineClips') >= Len(timelineClips) - 1
             /\ currentTime' = currentTime
             /\ isPlaying' = isPlaying
             /\ zoom' = zoom]_vars

\* both placement ids were handed out by drops from the unchanged library and
\* the second placement alone is left, no placement selected
C30_Witness ==
    /\ aRoll = NoAsset
    /\ bRolls = initialBRolls
    /\ nextId > MaxIds
    /\ selectedClip = NoId
    /\ Len(timelineClips) = 1
    /\ timelineClips[1].id = MaxIds
    /\ \E b \in Range(bRolls) : b = timelineClips[1].videoClip

-----------------------------------------------------------------------------
(* Properties of the drop (Spec) *)

-----------------------------------------------------------------------------
(* Properties of the source swap (PreviewSpec) *)

\* the preview effect runs: one of currentTime, timelineClips, isPlaying changed
EffectRuns ==
    <<currentTime', timelineClips', isPlaying'>> # <<currentTime, timelineClips, isPlaying>>

\* C32: a run of the preview effect assigns the element's source exactly when
\* the active placement's URL differs from the element's source: with the same
\* URL the element keeps its source and what it has loaded, and only the seek
\* to currentTime - startTime is made; with another URL the element gets that
\* URL and starts loading it; with no active placement nothing is assigned.
C32_SourceSwappedOnlyOnChange ==
    [][EffectRuns
          => LET c == ActiveClip(timelineClips', currentTime')
             IN  IF c = NoClip
                 THEN video' = video
                 ELSE IF video.src = c.videoClip.url
                 THEN /\ video'.src = video.src
                      /\ video'.ready = video.ready
                      /\ IF video.ready
                         THEN video'.time = currentTime' - c.startTime
                         ELSE video'.start = currentTime' - c.startTime
                 ELSE /\ video'.src = c.videoClip.url
                      /\ ~video'.ready]_vars

\* the loaded source of the active placement has been sought 1 s or more into
\* the placement while playing, and is still loaded
C32_Witness ==
    /\ isPlaying
    /\ video.ready
    /\ ActiveClip(timelineClips, currentTime) # NoClip
    /\ video.src = ActiveClip(timelineClips, currentTime).videoClip.url
    /\ video.time >= Sec(1)
    /\ video.time = currentTime - ActiveClip(timelineClips, currentTime).startTime

-----------------------------------------------------------------------------
(* Properties of the export progress (ExportSpec) *)

\* the place of a phase string among the phases handleExport announces
PhaseIndex(p) == CHOOSE i \in DOMAIN ExportPhases : ExportPhases[i] = p

\* in what a run has announced no phase comes after a later one, and nothing
\* comes after the clearing that ends the run
PhasesNeverBack(log) ==
    \A i, j \in DOMAIN log :
        (i < j /\ log[j] # "")
            => /\ log[i] # ""
               /\ PhaseIndex(log[i]) <= PhaseIndex(log[j])

\* C33: the percentages a run of exportTimeline passes to onProgress lie in
\* 0..100 and never decrease, and the phases a run of handleExport announces
\* never go back to an earlier phase.
C33_ProgressMonotonic ==
    [][/\ aProgress' # aProgress
            => /\ aProgress' \in 0..100
               /\ aProgress' >= aProgress
       /\ \A i \in DOMAIN progressLog' :
            progressLog'[i] = "" \/ \E k \in DOMAIN ExportPhases : ExportPhases[k] = progressLog'[i]
       /\ PhasesNeverBack(progressLog')]_vars

\* exportTimeline has rendered a timeline of 10 s to its end, its last
\* percentage 99 or more, and handleExport has announced every phase up to
\* Complete!
C33_Witness ==
    /\ aPc = "complete"
    /\ ExportTotalDuration(aSorted) = Sec(10)
    /\ aProgress >= 99
    /\ exportProgress = "Complete!"
    /\ Len(progressLog) = Len(ExportPhases)

-----------------------------------------------------------------------------
(* Properties of the Strategy B graph (ExportSpec) *)

\* C34: the graph handed to ffmpeg.exec defines the label [out] that the
\* command maps, and has one input file for the base and for every overlay or
\* concat segment, each a file written before.
C34_GraphWellFormed ==
    bPc \in {"encoding", "finalizing", "complete"}
        => /\ graph.hasOut
           /\ \A i \in DOMAIN graph.inputs : graph.inputs[i] \in DOMAIN fileMap
           /\ Len(graph.inputs)
                 = Len(graph.overlays) + (IF graph.kind = "overlay" THEN 1 ELSE 0)

-----------------------------------------------------------------------------
(* Properties of the Stitcher (StitcherSpec) *)

\* C35: currentPlayingIndex is null or an index of the playlist.
C35_PlayingIndexInRange ==
    \/ currentPlayingIndex = NoIndex
    \/ (0 <= currentPlayingIndex /\ currentPlayingIndex < Len(playlist))

\* C37: Play Sequence puts the first clip of the playlist on the element and
\* plays it; while the sequence runs, each end of a clip before the last puts
\* the next clip of the playlist on the element and plays it, and the end of
\* the last clip leaves the index on it and sets isPlaying to false.
C37_SequencePlayback ==
    [][/\ startSequence
            => /\ currentPlayingIndex' = 0
               /\ stitcherIsPlaying'
               /\ stitcherVideo' = [src |-> playlist[1].url, paused |-> FALSE]
       /\ (~isPreviewMode /\ handleVideoEnded)
            => IF currentPlayingIndex < Len(playlist) - 1
               THEN /\ currentPlayingIndex' = currentPlayingIndex + 1
                    /\ stitcherVideo'
                          = [src |-> playlist[currentPlayingIndex + 2].url,
                             paused |-> FALSE]
               ELSE /\ currentPlayingIndex' = currentPlayingIndex
                    /\ ~stitcherIsPlaying']_vars

-----------------------------------------------------------------------------
(* Properties of the selection (Spec) *)

\* C36: selectedClip is null or the id of a placement on the timeline.
C36_SelectionValid ==
    selectedClip = NoId \/ \E c \in Range(timelineClips) : c.id = selectedClip

-----------------------------------------------------------------------------
(* Properties of withRetry (RetrySpec) *)

\* C38: withRetry calls fn at most `retries` times, every call but the last
\* one made having failed; it returns the value of the call that succeeded;
\* after the failed attempt i, not the last, it waits 1000 * (i + 1) ms; when
\* all `retries` attempts failed it throws the error of the last one; and a
\* call under way comes to return or throw.
C38_BoundedRetry ==
    /\ [](/\ Len(retryCalls) <= retries
          /\ \A k \in 1..(Len(retryCalls) - 1) : retryCalls[k].kind = "error"
          /\ retryWaits = [k \in 1..Len(retryWaits) |-> RETRY_DELAY_MS * k]
          /\ retryPc = "calling"
                => Len(retryWaits) = Len(retryCalls) /\ Len(retryCalls) = retryI
          /\ retryPc = "waiting"
                => Len(retryWaits) = Len(retryCalls) /\ Len(retryCalls) = retryI + 1
          /\ retryPc = "returned"
                => /\ retryOutcome = retryCalls[Len(retryCalls)]
                   /\ retryOutcome.kind = "value"
                   /\ Len(retryWaits) = Len(retryCalls) - 1
          /\ (retryPc = "thrown" /\ retries > 0)
                => /\ Len(retryCalls) = retries
                   /\ retryOutcome = retryCalls[retries]
                   /\ retryOutcome.kind = "error"
                   /\ Len(retryWaits) = retries - 1)
    /\ (retryPc = "calling") ~> (retryPc \in {"returned", "thrown"})

\* the default three attempts all failed, with waits of 1 s and 2 s between
\* them, and the third error was thrown
C38_Witness ==
    /\ retries = DEFAULT_RETRIES
    /\ retryPc = "thrown"
    /\ Len(retryCalls) = DEFAULT_RETRIES
    /\ retryWaits = <<1000, 2000>>
    /\ retryOutcome.value = "Invalid JSON format from Gemini"
    /\ retryCalls[1].value = "http error"

-----------------------------------------------------------------------------
(* Properties of the export busy flag (HandleExportSpec) *)

\* C39: a run of handleExport starts only while isExporting is false, and a
\* run under way comes to set isExporting to false with exportProgress
\* cleared, whether it completes or fails.
C39_BusyFlagReleased ==
    /\ [][(bPc' = "loading-media" /\ bPc # "loading-media") => ~isExporting]_vars
    /\ [](isExporting <=> bPc \in {"loading-media", "encoding", "finalizing", "complete"}
                             /\ progressLog # <<>> /\ progressLog[Len(progressLog)] # "")
    /\ isExporting ~> (~isExporting /\ exportProgress = "")

\* a run whose ffmpeg.exec was rejected: it announced the encoding, then
\* cleared the progress and released the flag
C39_Witness ==
    /\ ~isExporting
    /\ exportProgress = ""
    /\ bPc = "failed"
    /\ graph.hasOut
    /\ progressLog = <<"Preparing...", "Loading videos...", "Building timeline...",
                       "Encoding video...", "">>

====
